---------------------------- MODULE Spec2Model ----------------------------
(***************************************************************************)
(* MCPSkeleton, claudeDesktop: extraction of an MCP server configuration   *)
(* from a configuration source (functions/getConfig.py), the two merges    *)
(* into the persisted store server_config.json (getConfig.py and           *)
(* functions/addConfig.py) and the installer (installMcp.py).              *)
(*                                                                         *)
(* Text (a source string, a file's content, a README) is a sequence of     *)
(* tokens, each token the literal piece of text it stands for; the text    *)
(* is their concatenation.  JSON text is parsed and written token by       *)
(* token, and the two regular expressions of get_mcp_config are matched    *)
(* over tokens.  A Python value is a tagged record; a dict keeps its       *)
(* insertion order as a sequence of <<key, value>> pairs.                  *)
(***************************************************************************)
EXTENDS Naturals, Sequences, FiniteSets, TLC

(***************************************************************************)
(* Bounds of the model.                                                    *)
(***************************************************************************)
\* calls made in one run of the store machine
MaxCalls == 2
\* segments a generated README is made of
MaxSegments == 3

VARIABLES
    store,      \* the store file: [present, text, dir, path]
    op,         \* the last operation called
    arg,        \* its arguments: [source, name, data]
    extracted,  \* what the extraction inside the last call produced
    pre,        \* the store before the last call
    ret,        \* what the last call returned or raised
    calls       \* number of calls made so far

vars == <<store, op, arg, extracted, pre, ret, calls>>

(***************************************************************************)
(* Python values.                                                          *)
(***************************************************************************)
Str(s) == [t |-> "str", s |-> s]
Num(n) == [t |-> "num", n |-> n]
Bool(b) == [t |-> "bool", b |-> b]
Arr(a) == [t |-> "arr", a |-> a]
Obj(kv) == [t |-> "obj", kv |-> kv]

IsObj(v) == v.t = "obj"

\* dict.keys()
Keys(o) == {o.kv[i][1] : i \in 1..Len(o.kv)}
\* key in dict
HasKey(o, key) == \E i \in 1..Len(o.kv) : o.kv[i][1] = key
\* dict[key], for a key the dict has
Get(o, key) == o.kv[CHOOSE i \in 1..Len(o.kv) : o.kv[i][1] = key][2]
\* dict[key] = v on the pairs of a dict: in place for a key it has, else appended
SetItem(kv, key, v) ==
    IF \E i \in 1..Len(kv) : kv[i][1] = key
    THEN [i \in 1..Len(kv) |-> IF kv[i][1] = key THEN <<key, v>> ELSE kv[i]]
    ELSE Append(kv, <<key, v>>)

\* == on values: dicts compare without regard to insertion order
RECURSIVE JEq(_, _)
JEq(a, b) ==
    /\ a.t = b.t
    /\ CASE a.t = "obj" ->
              /\ Keys(a) = Keys(b)
              /\ \A key \in Keys(a) : JEq(Get(a, key), Get(b, key))
         [] a.t = "arr" ->
              /\ Len(a.a) = Len(b.a)
              /\ \A i \in 1..Len(a.a) : JEq(a.a[i], b.a[i])
         [] OTHER -> a = b

\* outcome of a piece of code: a value, an exception, or nothing (fall through)
Ret(v) == [k |-> "ret", v |-> v, e |-> ""]
Raise(e) == [k |-> "raise", v |-> Num(0), e |-> e]
Nothing == [k |-> "none", v |-> Num(0), e |-> ""]

(***************************************************************************)
(* The string literals of the model and the substring relation among them  *)
(* (x in s, for a str s, is the substring test).                           *)
(***************************************************************************)
StrLits ==
    {"mcpServers", "mcp", "servers", "error", "command", "args", "env",
     "git", "gmail", "uvx", "npx", "mcp-server-git", "KEY", "val", "foo"}

ProperSubstr == {<<"mcp", "mcpServers">>, <<"mcp", "mcp-server-git">>,
                 <<"git", "mcp-server-git">>}

Substr(x, s) == x = s \/ <<x, s>> \in ProperSubstr

\* x in c, for a str x
PyIn(x, c) ==
    CASE c.t = "obj" -> IF HasKey(c, x) THEN "yes" ELSE "no"
      [] c.t = "arr" -> IF \E i \in 1..Len(c.a) : c.a[i] = Str(x)
                        THEN "yes" ELSE "no"
      [] c.t = "str" -> IF Substr(x, c.s) THEN "yes" ELSE "no"
      [] OTHER -> "TypeError"

\* c[key], for a str key
PyGetItem(c, key) ==
    IF c.t = "obj"
    THEN IF HasKey(c, key) THEN Ret(Get(c, key)) ELSE Raise("KeyError")
    ELSE Raise("TypeError")

\* repr(v); the strings of the model hold no quote and no backslash, so
\* the repr of a str is the str in single quotes
RECURSIVE PyRepr(_), ReprElements(_, _), ReprMembers(_, _)
PyRepr(v) ==
    CASE v.t = "str" -> "'" \o v.s \o "'"
      [] v.t = "num" -> ToString(v.n)
      [] v.t = "bool" -> IF v.b THEN "True" ELSE "False"
      [] v.t = "arr" -> "[" \o ReprElements(v.a, 1) \o "]"
      [] v.t = "obj" -> "{" \o ReprMembers(v.kv, 1) \o "}"

ReprElements(a, i) ==
    IF i > Len(a) THEN ""
    ELSE PyRepr(a[i]) \o (IF i < Len(a) THEN ", " ELSE "")
             \o ReprElements(a, i + 1)

ReprMembers(kv, i) ==
    IF i > Len(kv) THEN ""
    ELSE "'" \o kv[i][1] \o "': " \o PyRepr(kv[i][2])
             \o (IF i < Len(kv) THEN ", " ELSE "")
             \o ReprMembers(kv, i + 1)

\* str(v) inside an f-string
PyStr(v) == IF v.t = "str" THEN v.s ELSE PyRepr(v)

\* len(v)
PyLen(v) ==
    CASE v.t = "obj" -> Ret(Num(Len(v.kv)))
      [] v.t = "arr" -> Ret(Num(Len(v.a)))
      [] v.t = "str" -> Ret(Num(Len(v.s)))
      [] OTHER -> Raise("TypeError")

(***************************************************************************)
(* Tokens.                                                                 *)
(***************************************************************************)
Quote(s) == "\"" \o s \o "\""
IsStringToken(tok) == \E s \in StrLits : Quote(s) = tok
Unquote(tok) == CHOOSE s \in StrLits : Quote(s) = tok

Whitespace == {" ", "\n", "    "}
\* the Markdown code fence, three backquotes (a TLA+ string cannot hold one)
Fence == "'''"
NumberTokens == {"1"}
NumberOf(tok) == 1
NumberToken(n) == "1"

\* tokens that hold the character ':'
ColonTokens == {":", "https://github.com/o/r"}
\* tokens that start with './' or '/'
PathStartTokens == {"./cfg.json", "// the git server"}

Indent(d) == [i \in 1..d |-> "    "]

RECURSIVE SkipWs(_, _)
SkipWs(s, i) ==
    IF i <= Len(s) /\ s[i] \in Whitespace THEN SkipWs(s, i + 1) ELSE i

(***************************************************************************)
(* json.loads: [ok, v, i], i the index after the value.                    *)
(***************************************************************************)
ParseFail == [ok |-> FALSE, v |-> Num(0), i |-> 0]
ParseOk(v, i) == [ok |-> TRUE, v |-> v, i |-> i]

RECURSIVE ParseValue(_, _), ParseArray(_, _), ParseElements(_, _, _)
RECURSIVE AfterElement(_, _, _), NextElement(_, _, _), ParseObject(_, _)
RECURSIVE ParseMembers(_, _, _), ParseColon(_, _, _, _)
RECURSIVE AfterMember(_, _, _, _), NextMember(_, _, _)
\* the value that starts at index i
ParseValue(s, i) ==
    IF i > Len(s) THEN ParseFail
    ELSE IF IsStringToken(s[i]) THEN ParseOk(Str(Unquote(s[i])), i + 1)
    ELSE IF s[i] \in NumberTokens THEN ParseOk(Num(NumberOf(s[i])), i + 1)
    ELSE IF s[i] = "true" THEN ParseOk(Bool(TRUE), i + 1)
    ELSE IF s[i] = "false" THEN ParseOk(Bool(FALSE), i + 1)
    ELSE IF s[i] = "[" THEN ParseArray(s, SkipWs(s, i + 1))
    ELSE IF s[i] = "{" THEN ParseObject(s, SkipWs(s, i + 1))
    ELSE ParseFail

\* an array, from the index after its bracket
ParseArray(s, j) ==
    IF j <= Len(s) /\ s[j] = "]" THEN ParseOk(Arr(<<>>), j + 1)
    ELSE ParseElements(s, j, <<>>)

ParseElements(s, i, acc) == AfterElement(s, ParseValue(s, i), acc)

AfterElement(s, r, acc) ==
    IF ~r.ok THEN ParseFail
    ELSE NextElement(s, SkipWs(s, r.i), Append(acc, r.v))

NextElement(s, j, acc) ==
    IF j > Len(s) THEN ParseFail
    ELSE IF s[j] = "," THEN ParseElements(s, SkipWs(s, j + 1), acc)
    ELSE IF s[j] = "]" THEN ParseOk(Arr(acc), j + 1)
    ELSE ParseFail

\* an object, from the index after its brace
ParseObject(s, j) ==
    IF j <= Len(s) /\ s[j] = "}" THEN ParseOk(Obj(<<>>), j + 1)
    ELSE ParseMembers(s, j, <<>>)

ParseMembers(s, i, acc) ==
    IF i > Len(s) THEN ParseFail
    ELSE IF ~IsStringToken(s[i]) THEN ParseFail
    ELSE ParseColon(s, Unquote(s[i]), SkipWs(s, i + 1), acc)

ParseColon(s, key, j, acc) ==
    IF j > Len(s) THEN ParseFail
    ELSE IF s[j] # ":" THEN ParseFail
    ELSE AfterMember(s, key, ParseValue(s, SkipWs(s, j + 1)), acc)

\* a key met again keeps its place and takes the later value
AfterMember(s, key, r, acc) ==
    IF ~r.ok THEN ParseFail
    ELSE NextMember(s, SkipWs(s, r.i), SetItem(acc, key, r.v))

NextMember(s, j, acc) ==
    IF j > Len(s) THEN ParseFail
    ELSE IF s[j] = "," THEN ParseMembers(s, SkipWs(s, j + 1), acc)
    ELSE IF s[j] = "}" THEN ParseOk(Obj(acc), j + 1)
    ELSE ParseFail

\* the parse r is of all of s
WholeText(s, r) == IF r.ok /\ SkipWs(s, r.i) > Len(s) THEN r ELSE ParseFail

\* json.loads(s): the whole text is one value; ok = FALSE is JSONDecodeError
Loads(s) == WholeText(s, ParseValue(s, SkipWs(s, 1)))

(***************************************************************************)
(* json.dump(v, f, indent=4): the text written, at nesting depth d.        *)
(***************************************************************************)
RECURSIVE DumpValue(_, _), DumpMembers(_, _, _), DumpElements(_, _, _)
DumpValue(v, d) ==
    CASE v.t = "str" -> <<Quote(v.s)>>
      [] v.t = "num" -> <<NumberToken(v.n)>>
      [] v.t = "bool" -> IF v.b THEN <<"true">> ELSE <<"false">>
      [] v.t = "arr" ->
           IF v.a = <<>> THEN <<"[", "]">>
           ELSE <<"[">> \o DumpElements(v.a, 1, d + 1)
                        \o <<"\n">> \o Indent(d) \o <<"]">>
      [] v.t = "obj" ->
           IF v.kv = <<>> THEN <<"{", "}">>
           ELSE <<"{">> \o DumpMembers(v.kv, 1, d + 1)
                        \o <<"\n">> \o Indent(d) \o <<"}">>

DumpElements(a, i, d) ==
    <<"\n">> \o Indent(d) \o DumpValue(a[i], d)
        \o (IF i < Len(a) THEN <<",">> \o DumpElements(a, i + 1, d) ELSE <<>>)

DumpMembers(kv, i, d) ==
    <<"\n">> \o Indent(d) \o <<Quote(kv[i][1]), ":", " ">>
        \o DumpValue(kv[i][2], d)
        \o (IF i < Len(kv) THEN <<",">> \o DumpMembers(kv, i + 1, d) ELSE <<>>)

Dumps(v) == DumpValue(v, 0)

(***************************************************************************)
(* The fenced-block expression of get_mcp_config,                          *)
(*   fence (?:json)? \s* ( \{ [^fence]* \} ) \s* fence   with re.DOTALL.   *)
(***************************************************************************)
\* the least index of a set of indices
Least(S) == CHOOSE x \in S : \A y \in S : x <= y

\* the first index from i on that holds a fence, Len(text) + 1 when none does
NextFence(text, i) ==
    Least({j \in i..Len(text) : text[j] = Fence} \cup {Len(text) + 1})

\* the last index up to i that holds no whitespace, 0 when none does
RECURSIVE LastNonWs(_, _)
LastNonWs(text, i) ==
    IF i >= 1 /\ text[i] \in Whitespace THEN LastNonWs(text, i - 1) ELSE i

NoMatch == [ok |-> FALSE, from |-> 0, to |-> 0, last |-> 0]

\* the group text[from..to] ends in a brace, and only whitespace separates
\* it from the fence at last
MatchGroup(text, from, last, to) ==
    IF to > from /\ text[to] = "}"
    THEN [ok |-> TRUE, from |-> from, to |-> to, last |-> last]
    ELSE NoMatch

\* [^fence]* runs to the next fence, at last
MatchBody(text, from, last) ==
    IF last <= Len(text)
    THEN MatchGroup(text, from, last, LastNonWs(text, last - 1))
    ELSE NoMatch

\* the group opens with a brace at from
MatchOpen(text, from) ==
    IF from <= Len(text) /\ text[from] = "{"
    THEN MatchBody(text, from, NextFence(text, from + 1))
    ELSE NoMatch

\* the match that starts at i: the group is text[from..to], the closing
\* fence is at last
MatchFence(text, i) ==
    IF text[i] # Fence THEN NoMatch
    ELSE IF i + 1 <= Len(text) /\ text[i + 1] = "json"
    THEN MatchOpen(text, SkipWs(text, i + 2))
    ELSE MatchOpen(text, SkipWs(text, i + 1))

\* re.findall: the groups of the non-overlapping matches, left to right
RECURSIVE FindBlocks(_, _), BlocksFrom(_, _), BlocksAfter(_, _)
FindBlocks(text, i) ==
    BlocksFrom(text, {j \in i..Len(text) : MatchFence(text, j).ok})

\* starts: where from i on a match starts; the leftmost is the next match
BlocksFrom(text, starts) ==
    IF starts = {} THEN <<>>
    ELSE BlocksAfter(text, MatchFence(text, Least(starts)))

BlocksAfter(text, m) ==
    <<SubSeq(text, m.from, m.to)>> \o FindBlocks(text, m.last + 1)

(***************************************************************************)
(* The two brace-balanced expressions of get_mcp_config.  An index 0 is    *)
(* "no match".                                                             *)
(***************************************************************************)
\* \s* tok from index i: the index after tok
Expect(text, i, tok) ==
    IF i = 0 THEN 0
    ELSE IF SkipWs(text, i) <= Len(text) /\ text[SkipWs(text, i)] = tok
    THEN SkipWs(text, i) + 1
    ELSE 0

\* [^{}]*(?:\{[^{}]*(?:\{[^{}]*\}[^{}]*)*\}[^{}]*)*\}  from index i, d braces
\* open: the index after the closing brace
RECURSIVE ScanBalanced(_, _, _), ScanBrace(_, _, _)
ScanBalanced(text, i, d) ==
    IF i = 0 THEN 0
    ELSE ScanBrace(text,
                   Least({j \in i..Len(text) : text[j] \in {"{", "}"}}
                             \cup {Len(text) + 1}),
                   d)

\* i is the index of the next brace, Len(text) + 1 when there is none
ScanBrace(text, i, d) ==
    IF i > Len(text) THEN 0
    ELSE IF text[i] = "{"
    THEN IF d = 2 THEN 0 ELSE ScanBalanced(text, i + 1, d + 1)
    ELSE IF d = 0 THEN i + 1
    ELSE ScanBalanced(text, i + 1, d - 1)

\* patterns[0] matched at i: the index after the match
MatchCanonical(text, i) ==
    IF text[i] # "{" THEN 0
    ELSE LET a == Expect(text, i + 1, Quote("mcpServers"))
             b == Expect(text, a, ":")
             c == Expect(text, b, "{")
             e == ScanBalanced(text, c, 0)
         IN  Expect(text, e, "}")

\* patterns[1] matched at i: the index after the match
MatchAlternate(text, i) ==
    IF text[i] # "{" THEN 0
    ELSE LET a == Expect(text, i + 1, Quote("mcp"))
             b == Expect(text, a, ":")
             c == Expect(text, b, "{")
             f == Expect(text, c, Quote("servers"))
             g == Expect(text, f, ":")
             h == Expect(text, g, "{")
             e == ScanBalanced(text, h, 0)
         IN  Expect(text, Expect(text, e, "}"), "}")

PatternMatch(n, text, i) ==
    IF n = 1 THEN MatchCanonical(text, i) ELSE MatchAlternate(text, i)

\* the match at the leftmost of the start indices, as [ok, s]
Leftmost(n, text, starts) ==
    IF starts = {} THEN [ok |-> FALSE, s |-> <<>>]
    ELSE [ok |-> TRUE,
          s |-> SubSeq(text, Least(starts),
                       PatternMatch(n, text, Least(starts)) - 1)]

\* re.search(patterns[n - 1], text).group(0)
Search(n, text) ==
    Leftmost(n, text, {i \in 1..Len(text) : PatternMatch(n, text, i) # 0})

(***************************************************************************)
(* get_mcp_config.                                                         *)
(***************************************************************************)
ErrorResult(msg) == Obj(<< <<"error", Str(msg)>> >>)

\* config["mcp"]["servers"] as the mcpServers of a new dict
FromAlternate(m) ==
    IF m.k = "raise" THEN m
    ELSE IF PyIn("servers", m.v) = "TypeError" THEN Raise("TypeError")
    ELSE IF PyIn("servers", m.v) = "no" THEN Nothing
    ELSE IF PyGetItem(m.v, "servers").k = "raise" THEN PyGetItem(m.v, "servers")
    ELSE Ret(Obj(<< <<"mcpServers", PyGetItem(m.v, "servers").v>> >>))

\* the test of a parsed config for the two formats: the value to return, an
\* exception, or nothing when the config has neither key
Recognize(config) ==
    IF PyIn("mcpServers", config) = "TypeError" THEN Raise("TypeError")
    ELSE IF PyIn("mcpServers", config) = "yes" THEN Ret(config)
    ELSE IF PyIn("mcp", config) = "no" THEN Nothing
    ELSE FromAlternate(PyGetItem(config, "mcp"))

\* a config of neither format ends the call with an error result
OrError(r, msg) == IF r.k = "none" THEN Ret(ErrorResult(msg)) ELSE r

DirectConfig(p) ==
    IF ~p.ok THEN Nothing
    ELSE OrError(Recognize(p.v), "Valid JSON but no MCP configuration found")

\* the input as JSON text
DirectParse(text) == DirectConfig(Loads(text))

\* url_or_config.startswith('./') or .startswith('/') or ':' not in it
IsPathLike(text) ==
    \/ Len(text) > 0 /\ text[1] \in PathStartTokens
    \/ \A i \in 1..Len(text) : text[i] \notin ColonTokens

LocalConfig(p) ==
    IF ~p.ok THEN Nothing
    ELSE OrError(Recognize(p.v), "No MCP configuration found in local file")

\* the input as the path of a local JSON file
LocalFile(file) ==
    IF ~file.present THEN Nothing ELSE LocalConfig(Loads(file.text))

\* the loop over the fenced blocks, from block i on
RECURSIVE ScanBlocks(_, _), BlockParsed(_, _, _), BlockConfig(_, _, _)
ScanBlocks(blocks, i) ==
    IF i > Len(blocks) THEN Nothing
    ELSE BlockParsed(blocks, i, Loads(blocks[i]))

BlockParsed(blocks, i, p) ==
    IF ~p.ok THEN ScanBlocks(blocks, i + 1)
    ELSE BlockConfig(blocks, i, Recognize(p.v))

BlockConfig(blocks, i, r) ==
    IF r.k = "none" THEN ScanBlocks(blocks, i + 1) ELSE r

FencedScan(readme) == ScanBlocks(FindBlocks(readme, 1), 1)

\* the loop over the two patterns, from pattern n on
RECURSIVE PatternSearch(_, _), PatternFound(_, _, _)
RECURSIVE PatternParsed(_, _, _), PatternConfig(_, _, _)
PatternSearch(readme, n) ==
    IF n > 2 THEN Nothing ELSE PatternFound(readme, n, Search(n, readme))

PatternFound(readme, n, m) ==
    IF ~m.ok THEN PatternSearch(readme, n + 1)
    ELSE PatternParsed(readme, n, Loads(m.s))

PatternParsed(readme, n, p) ==
    IF ~p.ok THEN PatternSearch(readme, n + 1)
    ELSE PatternConfig(readme, n, Recognize(p.v))

PatternConfig(readme, n, r) ==
    IF r.k = "none" THEN PatternSearch(readme, n + 1) ELSE r

\* the end of the try block: nothing found in the README
FromPatterns(p) ==
    IF p.k # "none" THEN p
    ELSE Ret(ErrorResult("No MCP configuration found in README"))

FromBlocks(source, b) ==
    IF b.k # "none" THEN b
    ELSE FromPatterns(PatternSearch(source.fetch.text, 1))

\* requests.get(convert_github_url_to_raw(url)).text: the README, or a
\* RequestException
FromFetch(source, f) ==
    IF f.k # "none" THEN f
    ELSE IF ~source.fetch.ok THEN Raise("RequestException")
    ELSE FromBlocks(source, FencedScan(source.fetch.text))

FromDirect(source, d) ==
    IF d.k # "none" THEN d
    ELSE IF IsPathLike(source.text)
    THEN FromFetch(source, LocalFile(source.file))
    ELSE FromFetch(source, Nothing)

\* the two except clauses of get_mcp_config; the class name of the exception
\* stands for str(e), the text the interpreter gives the exception
Boundary(body) ==
    IF body.k = "ret" THEN body.v
    ELSE IF body.e = "RequestException"
    THEN ErrorResult("Failed to fetch README: " \o body.e)
    ELSE ErrorResult("Unexpected error: " \o body.e)

\* source: [text, file, fetch]; text is the string given, file what open(text)
\* finds, fetch what the request for the README brings
get_mcp_config(source) == Boundary(FromDirect(source, DirectParse(source.text)))

(***************************************************************************)
(* extract_specific_server_config: a value returned or an exception.       *)
(***************************************************************************)
NotFoundMessage(server_name) ==
    "Server '" \o server_name \o "' not found in the configuration"

\* the mutant of OneServer: a found server returns the whole registry
OneServerWhole(reg, server_name) ==
    IF reg.k = "raise" THEN reg
    ELSE IF PyIn(server_name, reg.v) = "TypeError" THEN Raise("TypeError")
    ELSE IF PyIn(server_name, reg.v) = "no"
    THEN Ret(ErrorResult(NotFoundMessage(server_name)))
    ELSE Ret(Obj(<< <<"mcpServers", reg.v>> >>))

\* server_name in full_config["mcpServers"], reg being full_config["mcpServers"]
OneServer(reg, server_name) ==
    IF reg.k = "raise" THEN reg
    ELSE IF PyIn(server_name, reg.v) = "TypeError" THEN Raise("TypeError")
    ELSE IF PyIn(server_name, reg.v) = "no"
    THEN Ret(ErrorResult(NotFoundMessage(server_name)))
    ELSE IF PyGetItem(reg.v, server_name).k = "raise"
    THEN PyGetItem(reg.v, server_name)
    ELSE Ret(Obj(<< <<"mcpServers",
                      Obj(<< <<server_name,
                               PyGetItem(reg.v, server_name).v>> >>)>> >>))

\* the body of extract_specific_server_config after the extraction
FilterServer(full_config, server_name) ==
    IF PyIn("error", full_config) = "TypeError" THEN Raise("TypeError")
    ELSE IF PyIn("error", full_config) = "yes" THEN Ret(full_config)
    ELSE IF PyIn("mcpServers", full_config) = "no"
    THEN Ret(ErrorResult(NotFoundMessage(server_name)))
    ELSE OneServer(PyGetItem(full_config, "mcpServers"), server_name)

extract_specific_server_config(config_source, server_name) ==
    FilterServer(get_mcp_config(config_source), server_name)

(***************************************************************************)
(* update_server_config_file: the whole-entry merge into the store.        *)
(***************************************************************************)
EmptyConfig == Obj(<< <<"mcpServers", Obj(<<>>)>> >>)

ParsedOrEmpty(p) == IF p.ok THEN p.v ELSE EmptyConfig

\* the store as read: absent or unparsable, the default structure
ReadExisting(config_file) ==
    IF ~config_file.present THEN EmptyConfig
    ELSE ParsedOrEmpty(Loads(config_file.text))

OrEmpty(r) == IF r.k = "none" THEN Ret(EmptyConfig) ELSE r

\* the store brought to the mcpServers format
NormalizeExisting(existing_config) == OrEmpty(Recognize(existing_config))

\* existing_config["mcpServers"][server] = config, for the items from i on
RECURSIVE AssignServers(_, _, _), AssignServer(_, _, _, _)
AssignServers(existing_config, items, i) ==
    IF i > Len(items) THEN Ret(existing_config)
    ELSE AssignServer(existing_config, items, i,
                      PyGetItem(existing_config, "mcpServers"))

AssignServer(existing_config, items, i, target) ==
    IF target.k = "raise" THEN target
    ELSE IF ~IsObj(target.v) THEN Raise("TypeError")
    ELSE AssignServers(
             Obj(SetItem(existing_config.kv, "mcpServers",
                         Obj(SetItem(target.v.kv, items[i][1], items[i][2])))),
             items, i + 1)

\* the mutant of MergeItems: a server the store has keeps its entry
MergeItemsKeepStored(existing_config, reg) ==
    IF reg.k = "raise" THEN reg
    ELSE IF ~IsObj(reg.v) THEN Raise("AttributeError")
    ELSE AssignServers(
             existing_config,
             SelectSeq(reg.v.kv,
                       LAMBDA it :
                           ~HasKey(Get(existing_config, "mcpServers"), it[1])),
             1)

\* the loop over reg.items(), reg being new_config["mcpServers"]
MergeItems(existing_config, reg) ==
    IF reg.k = "raise" THEN reg
    ELSE IF ~IsObj(reg.v) THEN Raise("AttributeError")
    ELSE AssignServers(existing_config, reg.v.kv, 1)

\* the merge of the new configuration into the existing one
MergeServers(existing_config, new_config) ==
    IF PyIn("mcpServers", new_config) = "TypeError" THEN Raise("TypeError")
    ELSE IF PyIn("mcpServers", new_config) = "no" THEN Ret(existing_config)
    ELSE MergeItems(existing_config, PyGetItem(new_config, "mcpServers"))

UpdatedMessage(n) ==
    "Server configuration successfully updated with " \o ToString(n)
        \o " servers"

\* the extraction step of update_server_config_file
ExtractNew(config_source, server_name) ==
    IF server_name # ""
    THEN extract_specific_server_config(config_source, server_name)
    ELSE Ret(get_mcp_config(config_source))

\* the three except clauses: [ret, store, new], config_file the store as the
\* try block left it
UpdateFailed(config_file, new, e) ==
    [ret |-> ErrorResult(
                 IF e = "FileNotFoundError"
                 THEN "Config file not found: " \o config_file.path
                 ELSE IF e = "JSONDecodeError"
                 THEN "Invalid JSON in the configuration file"
                 ELSE "Failed to update configuration: " \o e),
     store |-> config_file, new |-> new]

\* the store file after open(path, 'w') and json.dump of v
Written(config_file, v) ==
    [config_file EXCEPT !.present = TRUE, !.text = Dumps(v)]

\* the mutant of ReturnExtractionError: the store is opened and written
\* before the error is returned
ReturnExtractionErrorAfterWrite(config_file, new) ==
    [ret |-> new.v,
     store |-> Written(config_file, ReadExisting(config_file)),
     new |-> new]

\* "error" in new_config: the extraction's failure is returned as it is
ReturnExtractionError(config_file, new) ==
    [ret |-> new.v, store |-> config_file, new |-> new]

\* len(new_config.get('mcpServers', {}))
CountServers(new_config) ==
    IF ~IsObj(new_config) THEN Raise("AttributeError")
    ELSE IF ~HasKey(new_config, "mcpServers") THEN Ret(Num(0))
    ELSE PyLen(Get(new_config, "mcpServers"))

\* the success result, made after the store is written
UpdateSucceeded(written, new, count) ==
    IF count.k = "raise" THEN UpdateFailed(written, new, count.e)
    ELSE [ret |-> Obj(<< <<"success", Bool(TRUE)>>,
                         <<"message", Str(UpdatedMessage(count.v.n))>> >>),
          store |-> written, new |-> new]

\* the write of the merged configuration; open(path, 'w') raises
\* FileNotFoundError when the directory of the path does not exist
WriteMerged(config_file, new, merged) ==
    IF merged.k = "raise" THEN UpdateFailed(config_file, new, merged.e)
    ELSE IF ~config_file.dir
    THEN UpdateFailed(config_file, new, "FileNotFoundError")
    ELSE UpdateSucceeded(Written(config_file, merged.v), new,
                         CountServers(new.v))

MergeIntoExisting(config_file, new, ex) ==
    IF ex.k = "raise" THEN UpdateFailed(config_file, new, ex.e)
    ELSE WriteMerged(config_file, new, MergeServers(ex.v, new.v))

AfterExtraction(config_file, new) ==
    IF new.k = "raise" THEN UpdateFailed(config_file, new, new.e)
    ELSE IF PyIn("error", new.v) = "TypeError"
    THEN UpdateFailed(config_file, new, "TypeError")
    ELSE IF PyIn("error", new.v) = "yes"
    THEN ReturnExtractionError(config_file, new)
    ELSE MergeIntoExisting(config_file, new,
                           NormalizeExisting(ReadExisting(config_file)))

\* [ret, store, new]: the value returned, the store left, the extraction
update_server_config_file(config_file, config_source, server_name) ==
    AfterExtraction(config_file, ExtractNew(config_source, server_name))

(***************************************************************************)
(* update_server_config (addConfig.py): the recursive merge into the store.*)
(***************************************************************************)
RECURSIVE deep_merge(_, _), DeepMergeItems(_, _, _)
RECURSIVE DeepMergeItem(_, _, _, _), DeepMergeNested(_, _, _, _)
\* the loop of deep_merge over source.items(), from item i on
DeepMergeItems(items, i, destination) ==
    IF i > Len(items) THEN Ret(destination)
    ELSE IF PyIn(items[i][1], destination) = "TypeError"
    THEN Raise("TypeError")
    ELSE IF PyIn(items[i][1], destination) = "yes"
    THEN DeepMergeItem(items, i, destination,
                       PyGetItem(destination, items[i][1]))
    ELSE DeepMergeItem(items, i, destination, Nothing)

\* old is destination[key], when destination has the key
DeepMergeItem(items, i, destination, old) ==
    IF old.k = "raise" THEN old
    ELSE IF old.k = "ret" /\ IsObj(old.v) /\ IsObj(items[i][2])
    THEN DeepMergeNested(items, i, destination, deep_merge(items[i][2], old.v))
    ELSE IF ~IsObj(destination) THEN Raise("TypeError")
    ELSE DeepMergeItems(items, i + 1,
             Obj(SetItem(destination.kv, items[i][1], items[i][2])))

\* inner is destination[key] after the nested merge into it
DeepMergeNested(items, i, destination, inner) ==
    IF inner.k = "raise" THEN inner
    ELSE DeepMergeItems(items, i + 1,
             Obj(SetItem(destination.kv, items[i][1], inner.v)))

deep_merge(source, destination) ==
    IF ~IsObj(source) THEN Raise("AttributeError")
    ELSE DeepMergeItems(source.kv, 1, destination)

WriteUpdated(config_file, updated) ==
    IF updated.k = "raise" THEN [ok |-> FALSE, store |-> config_file]
    ELSE [ok |-> TRUE, store |-> Written(config_file, updated.v)]

MergeIntoParsed(config_file, new_config_data, p) ==
    IF ~p.ok THEN [ok |-> FALSE, store |-> config_file]
    ELSE WriteUpdated(config_file, deep_merge(new_config_data, p.v))

\* [ok, store]: the bool returned and the store left
update_server_config(config_file, new_config_data) ==
    IF ~config_file.present THEN [ok |-> FALSE, store |-> config_file]
    ELSE MergeIntoParsed(config_file, new_config_data, Loads(config_file.text))

(***************************************************************************)
(* install_mcp_server (installMcp.py).  results is what                    *)
(* find_and_display_mcp_servers returned: servers as [name, repository].   *)
(***************************************************************************)
RECURSIVE TextOf(_)
\* the string a token sequence stands for
TextOf(text) == IF text = <<>> THEN "" ELSE Head(text) \o TextOf(Tail(text))

InstallOutcome(config_file, config, r) ==
    [ret |-> r, store |-> config_file, new |-> Ret(config)]

\* the result of step 3
InstallUpdated(config_file, server, config, upd) ==
    IF ~upd.ok
    THEN InstallOutcome(config_file, config,
             Ret(ErrorResult("Failed to update server configuration")))
    ELSE InstallOutcome(upd.store, config,
             Ret(Obj(<< <<"success", Bool(TRUE)>>,
                        <<"server", Str(server.name)>>,
                        <<"repository", Str(TextOf(server.repository.text))>>,
                        <<"message",
                          Str("Successfully installed " \o server.name
                                  \o " configuration")>> >>)))

\* len(config['mcpServers']) for the message, then step 3
InstallCounted(config_file, server, config, reg) ==
    IF reg.k = "raise" THEN InstallOutcome(config_file, config, reg)
    ELSE IF PyLen(reg.v).k = "raise"
    THEN InstallOutcome(config_file, config, PyLen(reg.v))
    ELSE InstallUpdated(config_file, server, config,
                        update_server_config(config_file, config))

\* the error of step 2 wrapped into the installer's own
InstallFailed(config_file, config, msg) ==
    IF msg.k = "raise" THEN InstallOutcome(config_file, config, msg)
    ELSE InstallOutcome(config_file, config,
             Ret(ErrorResult("Failed to get configuration: " \o PyStr(msg.v))))

InstallConfig(config_file, server, config) ==
    IF PyIn("error", config) = "yes"
    THEN InstallFailed(config_file, config, PyGetItem(config, "error"))
    ELSE IF PyIn("mcpServers", config) = "no"
    THEN InstallOutcome(config_file, config,
             Ret(ErrorResult(
                 "Invalid configuration: 'mcpServers' section not found")))
    ELSE InstallCounted(config_file, server, config,
                        PyGetItem(config, "mcpServers"))

\* [ret, store, new]: the outcome (a value returned or an exception), the
\* store left, the configuration retrieved
install_mcp_server(config_file, results) ==
    IF results = <<>>
    THEN [ret |-> Ret(ErrorResult("No matching MCP servers found")),
          store |-> config_file, new |-> Nothing]
    ELSE InstallConfig(config_file, results[1],
                       get_mcp_config(results[1].repository))

(***************************************************************************)
(* The inputs: configurations, the texts that hold them, the sources.      *)
(***************************************************************************)
EntryFull ==
    Obj(<< <<"command", Str("uvx")>>,
           <<"args", Arr(<<Str("mcp-server-git")>>)>> >>)
EntryBare == Obj(<< <<"command", Str("npx")>> >>)
Entries == {EntryFull, EntryBare}

Registries ==
    {Obj(<<>>)}
        \cup {Obj(<< <<n, e>> >>) : n \in {"git", "gmail"}, e \in Entries}
        \cup {Obj(<< <<"git", e1>>, <<"gmail", e2>> >>) :
                 e1 \in Entries, e2 \in Entries}

Canonical(reg) == Obj(<< <<"mcpServers", reg>> >>)
Alternate(reg) == Obj(<< <<"mcp", Obj(<< <<"servers", reg>> >>)>> >>)
BothKeys(reg1, reg2) ==
    Obj(<< <<"mcpServers", reg1>>,
           <<"mcp", Obj(<< <<"servers", reg2>> >>)>> >>)
WithErrorKey(reg) ==
    Obj(<< <<"mcpServers", reg>>, <<"error", Str("foo")>> >>)
NoConfig == Obj(<< <<"foo", Num(1)>> >>)

RegGitFull == Obj(<< <<"git", EntryFull>> >>)
RegGitBare == Obj(<< <<"git", EntryBare>> >>)
RegGmailBare == Obj(<< <<"gmail", EntryBare>> >>)
RegGmailFull == Obj(<< <<"gmail", EntryFull>> >>)
RegTwo == Obj(<< <<"git", EntryBare>>, <<"gmail", EntryFull>> >>)

\* a fenced block with a comment line in the JSON and the closing brace of
\* the git object missing
BrokenFencedText ==
    <<Fence, "json", "\n", "{", "\n", Quote("mcpServers"), ":", " ", "{", "\n",
      Quote("git"), ":", " ", "{", "\n", "// the git server", "\n",
      Quote("command"), ":", " ", Quote("uvx"), ",", "\n",
      Quote("args"), ":", " ", "[", Quote("mcp-server-git"), "]", "\n",
      "}", "\n", "}", "\n", Fence, "\n">>

\* unfenced text in the canonical format with a trailing comma
BrokenRawText ==
    <<"{", " ", Quote("mcpServers"), ":", " ", "{", " ", Quote("git"), ":",
      " ", "{", " ", Quote("command"), ":", " ", Quote("uvx"), ",", " ",
      "}", " ", "}", " ", "}", "\n">>

\* a README is made of segments [kind, v]
Seg(kind, v) == [kind |-> kind, v |-> v]
SegText(seg) ==
    CASE seg.kind = "prose" -> <<"Usage", "\n">>
      [] seg.kind = "bash" -> <<Fence, "bash", "\n", "npx", "\n", Fence, "\n">>
      [] seg.kind = "fenced" ->
           <<Fence, "json", "\n">> \o Dumps(seg.v) \o <<"\n", Fence, "\n">>
      [] seg.kind = "fencedBroken" -> BrokenFencedText
      [] seg.kind = "raw" -> Dumps(seg.v) \o <<"\n">>
      [] seg.kind = "rawBroken" -> BrokenRawText

RECURSIVE ReadmeText(_)
ReadmeText(segs) ==
    IF segs = <<>> THEN <<>> ELSE SegText(Head(segs)) \o ReadmeText(Tail(segs))

Segments ==
    {Seg("prose", Num(0)), Seg("bash", Num(0)),
     Seg("fenced", Canonical(RegGitFull)),
     Seg("fenced", Canonical(Obj(<<>>))),
     Seg("fenced", Alternate(RegGmailBare)),
     Seg("fenced", NoConfig),
     Seg("fencedBroken", Canonical(RegGitFull)),
     Seg("raw", Canonical(RegGmailBare)),
     Seg("raw", Alternate(RegGitFull)),
     Seg("rawBroken", Canonical(RegGitFull))}

SegSeqs(n) == UNION {[1..m -> Segments] : m \in 0..n}

NoFile == [present |-> FALSE, text |-> <<>>]
NoFetch == [ok |-> FALSE, text |-> <<>>]
UrlText == <<"https://github.com/o/r">>
PathText == <<"./cfg.json">>

\* the string is the text itself
Literal(text) ==
    [text |-> text, file |-> NoFile, fetch |-> NoFetch, segs |-> <<>>]
\* the string is the path of a local file
LocalPath(file) ==
    [text |-> PathText, file |-> file, fetch |-> NoFetch, segs |-> <<>>]
\* the string is the URL of a repository whose README is made of segs
Repository(segs) ==
    [text |-> UrlText, file |-> NoFile,
     fetch |-> [ok |-> TRUE, text |-> ReadmeText(segs)], segs |-> segs]
\* the string is a URL the request fails for
Unreachable ==
    [text |-> UrlText, file |-> NoFile, fetch |-> NoFetch, segs |-> <<>>]

LiteralValues ==
    {Canonical(r) : r \in Registries}
        \cup {Alternate(RegGitFull), Alternate(Obj(<<>>)),
              BothKeys(RegGitFull, RegGmailBare), WithErrorKey(RegGitFull),
              NoConfig, Str("mcpServers"), Arr(<<Str("mcpServers")>>),
              Arr(<<Str("error")>>), Num(1),
              Obj(<< <<"mcp", Str("servers")>> >>),
              Canonical(Arr(<<Str("git")>>)), Canonical(Str("git"))}

FileValues ==
    {Canonical(RegTwo), Canonical(Obj(<<>>)), Alternate(RegGitFull),
     BothKeys(RegGitFull, RegGmailBare), NoConfig}

ExtractSources ==
    {Literal(Dumps(v)) : v \in LiteralValues}
        \cup {Literal(<<"{">>), Literal(<<"Usage">>), Unreachable}
        \cup {LocalPath([present |-> TRUE, text |-> Dumps(v)]) : v \in FileValues}
        \cup {LocalPath(NoFile), LocalPath([present |-> TRUE, text |-> <<"{">>])}
        \cup {Repository(segs) : segs \in SegSeqs(MaxSegments)}

FilterNames == {"git", "gmail", "foo"}

StoreSources ==
    {Literal(Dumps(Canonical(r))) :
         r \in {RegGitBare, RegGmailFull, RegTwo, Obj(<<>>)}}
        \cup {Literal(Dumps(v)) :
                v \in {BothKeys(RegGitFull, RegGmailBare),
                       WithErrorKey(RegGitFull), NoConfig,
                       Arr(<<Str("mcpServers")>>),
                       Canonical(Arr(<<Str("git")>>))}}
        \cup {Unreachable}
        \cup {Repository(segs) :
                segs \in {<<>>, <<Seg("prose", Num(0))>>,
                          <<Seg("fenced", Canonical(RegGitBare))>>,
                          <<Seg("fenced", Canonical(RegTwo))>>,
                          <<Seg("fenced", BothKeys(RegGitBare, RegGmailBare))>>,
                          <<Seg("prose", Num(0)),
                            Seg("raw", Canonical(RegGmailBare))>>}}

NameArgs == {"", "git", "gmail"}

ConfigData == {Canonical(RegGitBare), Canonical(RegTwo), Canonical(Obj(<<>>))}

\* config_path of update_server_config
ConfigPath == "server_config.json"
StoreFile(present, text) ==
    [present |-> present, text |-> text, dir |-> TRUE, path |-> ConfigPath]
AbsentStore == StoreFile(FALSE, <<>>)
StoreOf(v) == StoreFile(TRUE, Dumps(v))
UnparsableStore == StoreFile(TRUE, <<"{", Quote("mcpServers")>>)
\* a config_file_path in a directory that does not exist
NoDirStore ==
    [present |-> FALSE, text |-> <<>>, dir |-> FALSE,
     path |-> "nodir/server_config.json"]

InitStores ==
    {AbsentStore, UnparsableStore, StoreOf(Canonical(Obj(<<>>))),
     StoreOf(Canonical(RegGitFull)),
     StoreOf(Canonical(Obj(<< <<"gmail", EntryBare>>, <<"git", EntryFull>> >>))),
     StoreOf(Alternate(RegGmailBare)), StoreOf(Arr(<<>>)), NoDirStore}

(***************************************************************************)
(* The store machine: calls of update_server_config_file,                  *)
(* update_server_config and install_mcp_server on one store.  The store is *)
(* the file update_server_config_file is given the path of;                *)
(* update_server_config and install_mcp_server work on ConfigPath in the   *)
(* working directory, and are calls on the store when that is its path.    *)
(***************************************************************************)
NoSource == Literal(<<>>)
Args(source, name, data) == [source |-> source, name |-> name, data |-> data]

Init ==
    /\ store \in InitStores
    /\ op = "init"
    /\ arg = Args(NoSource, "", Num(0))
    /\ extracted = Nothing
    /\ pre = store
    /\ ret = Nothing
    /\ calls = 0

\* the call made: what it was, what it left and what it returned
Called(name, a, r) ==
    /\ op' = name
    /\ arg' = a
    /\ store' = r.store
    /\ ret' = r.ret
    /\ extracted' = r.new
    /\ pre' = store
    /\ calls' = calls + 1

Returned(r) == [ret |-> Ret(r.ret), store |-> r.store, new |-> r.new]
ReturnedBool(r) == [ret |-> Ret(Bool(r.ok)), store |-> r.store, new |-> Nothing]

UpdateServerConfigFile ==
    /\ calls < MaxCalls
    /\ \E source \in StoreSources, name \in NameArgs :
          Called("update_server_config_file", Args(source, name, Num(0)),
                 Returned(update_server_config_file(store, source, name)))

UpdateServerConfig ==
    /\ calls < MaxCalls
    /\ store.path = ConfigPath
    /\ \E data \in ConfigData :
          Called("update_server_config", Args(NoSource, "", data),
                 ReturnedBool(update_server_config(store, data)))

InstallMcpServer ==
    /\ calls < MaxCalls
    /\ store.path = ConfigPath
    /\ \/ Called("install_mcp_server", Args(NoSource, "", Num(0)),
                 install_mcp_server(store, <<>>))
       \/ \E source \in StoreSources :
             Called("install_mcp_server", Args(source, "", Num(0)),
                    install_mcp_server(
                        store, <<[name |-> "srv", repository |-> source]>>))

Next == UpdateServerConfigFile \/ UpdateServerConfig \/ InstallMcpServer

Spec == Init /\ [][Next]_vars

(***************************************************************************)
(* The extraction alone: one source, get_mcp_config or                     *)
(* extract_specific_server_config applied to it.                           *)
(***************************************************************************)
InitExtract ==
    /\ store = AbsentStore
    /\ op = "init"
    /\ arg \in {Args(source, "", Num(0)) : source \in ExtractSources}
    /\ extracted = Nothing
    /\ pre = store
    /\ ret = Nothing
    /\ calls = 0

\* the function applied: full is what get_mcp_config made of the source
Applied(name, a, full, r) ==
    /\ op' = name
    /\ arg' = a
    /\ extracted' = Ret(full)
    /\ ret' = r
    /\ UNCHANGED <<store, pre, calls>>

GetMcpConfig ==
    /\ op = "init"
    /\ Applied("get_mcp_config", arg, get_mcp_config(arg.source),
               Ret(get_mcp_config(arg.source)))

ExtractSpecificServerConfig ==
    /\ op = "init"
    /\ \E name \in FilterNames :
          Applied("extract_specific_server_config",
                  [arg EXCEPT !.name = name],
                  get_mcp_config(arg.source),
                  extract_specific_server_config(arg.source, name))

NextExtract == GetMcpConfig \/ ExtractSpecificServerConfig

SpecExtract == InitExtract /\ [][NextExtract]_vars

(***************************************************************************)
(* The claims.                                                             *)
(***************************************************************************)
\* a value of the success shape: a dict with mcpServers and without error
IsSuccess(v) == IsObj(v) /\ HasKey(v, "mcpServers") /\ ~HasKey(v, "error")
\* a value of the failure shape: a dict with error
IsFailure(v) == IsObj(v) /\ HasKey(v, "error")
\* a configuration whose registry is a mapping of servers
HasRegistry(v) ==
    IsObj(v) /\ HasKey(v, "mcpServers") /\ IsObj(Get(v, "mcpServers"))
\* the store holds a parsable configuration with a registry
StoreHasRegistry(st) ==
    st.present /\ Loads(st.text).ok /\ HasRegistry(Loads(st.text).v)
StoredRegistry(st) == Get(Loads(st.text).v, "mcpServers")
\* the last call returned a dict with success
ReturnedSuccess == ret.k = "ret" /\ IsObj(ret.v) /\ HasKey(ret.v, "success")

\* registry s is registry a overwritten, entry by entry, with registry b
IsWholeEntryMerge(s, a, b) ==
    /\ Keys(s) = Keys(a) \cup Keys(b)
    /\ \A n \in Keys(b) : JEq(Get(s, n), Get(b, n))
    /\ \A n \in Keys(a) \ Keys(b) : JEq(Get(s, n), Get(a, n))

\* C1: a successful update_server_config_file on a store with registry A and
\* an incoming registry B leaves a store whose mcpServers has exactly the
\* names of A and B, every name of B with B's entry in full and every name
\* only in A with A's entry.
C1_WholeEntryMerge ==
    (/\ op = "update_server_config_file"
     /\ ReturnedSuccess
     /\ StoreHasRegistry(pre))
        => /\ StoreHasRegistry(store)
           /\ HasRegistry(extracted.v)
           /\ IsWholeEntryMerge(StoredRegistry(store), StoredRegistry(pre),
                                Get(extracted.v, "mcpServers"))

\* C1's case: the incoming git entry has no args, the stored one has, and
\* the store has a server the incoming registry has not
C1_Witness ==
    /\ op = "update_server_config_file"
    /\ ReturnedSuccess
    /\ StoreHasRegistry(pre)
    /\ HasKey(StoredRegistry(pre), "git")
    /\ HasKey(Get(StoredRegistry(pre), "git"), "args")
    /\ HasKey(StoredRegistry(pre), "gmail")
    /\ HasRegistry(extracted.v)
    /\ Keys(Get(extracted.v, "mcpServers")) = {"git"}
    /\ ~HasKey(Get(Get(extracted.v, "mcpServers"), "git"), "args")

\* C2: after install_mcp_server has installed a configuration extracted by
\* get_mcp_config, every server of the extracted registry is stored with
\* exactly the extracted entry, with no field of an older entry left over.
C2_InstallOverwritesWholeEntry ==
    (/\ op = "install_mcp_server"
     /\ ReturnedSuccess
     /\ StoreHasRegistry(pre)
     /\ HasRegistry(extracted.v))
        => /\ StoreHasRegistry(store)
           /\ \A n \in Keys(Get(extracted.v, "mcpServers")) :
                 /\ HasKey(StoredRegistry(store), n)
                 /\ JEq(Get(StoredRegistry(store), n),
                        Get(Get(extracted.v, "mcpServers"), n))

\* C3: get_mcp_config and extract_specific_server_config return, for every
\* input, a mapping with exactly one of the keys mcpServers and error (the
\* error a string), and raise nothing.
C3_ExactlyOneShape ==
    op \in {"get_mcp_config", "extract_specific_server_config"}
        => /\ ret.k = "ret"
           /\ IsObj(ret.v)
           /\ HasKey(ret.v, "mcpServers") # HasKey(ret.v, "error")
           /\ HasKey(ret.v, "error") => Get(ret.v, "error").t = "str"

\* C4: get_mcp_config never succeeds with a registry of zero servers.
C4_NoEmptySuccess ==
    (/\ op = "get_mcp_config"
     /\ IsSuccess(ret.v)
     /\ HasRegistry(ret.v))
        => Get(ret.v, "mcpServers").kv # <<>>

\* C5: no successful result of get_mcp_config carries the alternate key mcp.
C5_CanonicalShape ==
    (op = "get_mcp_config" /\ IsSuccess(ret.v)) => ~HasKey(ret.v, "mcp")

\* the registry a configuration in either format holds
RegistryIn(v) ==
    IF HasKey(v, "mcpServers") THEN Get(v, "mcpServers")
    ELSE Get(Get(v, "mcp"), "servers")
\* a segment that is valid JSON of a configuration in either format
IsConfigSegment(seg, kind) ==
    /\ seg.kind = kind
    /\ \/ HasKey(seg.v, "mcpServers")
       \/ HasKey(seg.v, "mcp")
\* the first segment of the kind that holds a configuration
FirstConfig(segs, kind) ==
    segs[Least({i \in 1..Len(segs) : IsConfigSegment(segs[i], kind)})]
HasConfig(segs, kind) ==
    \E i \in 1..Len(segs) : IsConfigSegment(segs[i], kind)
\* the last call was get_mcp_config on a README that was fetched
ReadmeExtracted ==
    /\ op = "get_mcp_config"
    /\ arg.source.text = UrlText
    /\ arg.source.fetch.ok

\* C6: a README with a valid fenced configuration block yields the registry
\* of the first such block whatever text is outside it, and a README whose
\* configurations are all unfenced yields the registry of the one that comes
\* first in the document.
C6_FirstMatchWins ==
    ReadmeExtracted
        => /\ HasConfig(arg.source.segs, "fenced")
                => /\ IsSuccess(ret.v)
                   /\ JEq(Get(ret.v, "mcpServers"),
                          RegistryIn(FirstConfig(arg.source.segs, "fenced").v))
           /\ (/\ ~HasConfig(arg.source.segs, "fenced")
               /\ \A i \in 1..Len(arg.source.segs) :
                     arg.source.segs[i].kind # "fencedBroken"
               /\ HasConfig(arg.source.segs, "raw"))
                => /\ IsSuccess(ret.v)
                   /\ JEq(Get(ret.v, "mcpServers"),
                          RegistryIn(FirstConfig(arg.source.segs, "raw").v))

\* C7: a README whose only configuration is a fenced block with a comment
\* line in the JSON and one closing brace missing yields that block's
\* servers.
C7_LenientRetry ==
    (/\ ReadmeExtracted
     /\ \E i \in 1..Len(arg.source.segs) :
           arg.source.segs[i].kind = "fencedBroken"
     /\ \A i \in 1..Len(arg.source.segs) :
           arg.source.segs[i].kind \in {"fencedBroken", "prose", "bash"})
        => /\ IsSuccess(ret.v)
           /\ JEq(Get(ret.v, "mcpServers"), RegGitFull)

\* C8: extract_specific_server_config returns the one entry of the name,
\* equal to the registry's, when the extracted registry has the name, a
\* failure naming the server when it has not, and the extraction's failure
\* unchanged when the extraction failed.
C8_FilterOne ==
    op = "extract_specific_server_config"
        => /\ IsFailure(extracted.v) => ret = Ret(extracted.v)
           /\ (/\ IsSuccess(extracted.v)
               /\ HasRegistry(extracted.v)
               /\ HasKey(Get(extracted.v, "mcpServers"), arg.name))
                => /\ ret.k = "ret"
                   /\ IsObj(ret.v)
                   /\ Keys(ret.v) = {"mcpServers"}
                   /\ IsObj(Get(ret.v, "mcpServers"))
                   /\ Keys(Get(ret.v, "mcpServers")) = {arg.name}
                   /\ JEq(Get(Get(ret.v, "mcpServers"), arg.name),
                          Get(Get(extracted.v, "mcpServers"), arg.name))
           /\ (/\ IsSuccess(extracted.v)
               /\ HasRegistry(extracted.v)
               /\ ~HasKey(Get(extracted.v, "mcpServers"), arg.name))
                => ret = Ret(Obj(<< <<"error",
                                     Str("Server '" \o arg.name
                                             \o "' not found in the configuration")>> >>))

\* C8's case: one server of a registry of two is asked for and returned
C8_Witness ==
    /\ op = "extract_specific_server_config"
    /\ arg.name = "gmail"
    /\ IsSuccess(extracted.v)
    /\ HasRegistry(extracted.v)
    /\ Keys(Get(extracted.v, "mcpServers")) = {"git", "gmail"}
    /\ ret.k = "ret"
    /\ HasRegistry(ret.v)
    /\ Keys(Get(ret.v, "mcpServers")) = {"gmail"}

\* the incoming registry of a merging call, when it has one
Incoming ==
    IF op = "update_server_config" THEN arg.data ELSE extracted.v

\* C9: update_server_config_file and update_server_config, on a store file
\* that is absent or unparsable, succeed and leave a store that holds
\* exactly the incoming servers.
C9_MissingStoreIsEmpty ==
    (/\ op \in {"update_server_config_file", "update_server_config"}
     /\ ~pre.present \/ ~Loads(pre.text).ok
     /\ op = "update_server_config_file" => extracted.k = "ret"
     /\ IsSuccess(Incoming)
     /\ HasRegistry(Incoming))
        => /\ ret.k = "ret"
           /\ op = "update_server_config" => ret.v = Bool(TRUE)
           /\ op = "update_server_config_file" => ReturnedSuccess
           /\ StoreHasRegistry(store)
           /\ JEq(StoredRegistry(store), Get(Incoming, "mcpServers"))

\* C10: a call of update_server_config_file or install_mcp_server whose
\* extraction returned a failure returns that failure (the installer inside
\* its own message) and leaves the store file as it was.
C10_FailureLeavesStore ==
    (/\ op \in {"update_server_config_file", "install_mcp_server"}
     /\ extracted.k = "ret"
     /\ IsFailure(extracted.v))
        => /\ store = pre
           /\ op = "update_server_config_file" => ret = Ret(extracted.v)
           /\ op = "install_mcp_server"
                => ret = Ret(Obj(<< <<"error",
                                     Str("Failed to get configuration: "
                                             \o PyStr(Get(extracted.v, "error")))>> >>))

\* C10's case: the server asked for is not in the extracted registry while
\* there is no store file yet
C10_Witness ==
    /\ op = "update_server_config_file"
    /\ arg.name = "gmail"
    /\ extracted.k = "ret"
    /\ IsFailure(extracted.v)
    /\ Get(extracted.v, "error")
           = Str("Server 'gmail' not found in the configuration")
    /\ ~pre.present
    /\ ~store.present

=============================================================================
